---------------------------- MODULE Spec2Model ----------------------------
(***************************************************************************)
(* State-machine model of the download request flow of js/pdf-submit.js:   *)
(* the download modal, the contact form, the asynchronous submit handler   *)
(* (fetch, body read, download, delayed close) and the key and filename    *)
(* resolution it performs; and of the video modal of js/videopop.js, which  *)
(* shares the page, its scroll lock and its keydown events with it.         *)
(*                                                                         *)
(* JavaScript strings are sequences of one-character strings, so that      *)
(* trim(), split(), replace(), match() and decodeURIComponent() are        *)
(* computed character by character.  `undefined` / null is Undefined.      *)
(***************************************************************************)
EXTENDS Integers, Sequences, FiniteSets, TLC

VARIABLES
  present,        \* ids of the DOM elements the page contains (fixed per page)
  listeners,      \* listeners init() registered
  pathname,       \* location.pathname as the latest submit handler read it
  datasetPdf,     \* downloadBtn.dataset.pdf
  fallbackName,   \* downloadBtn.dataset.fallbackName
  modalHidden,    \* modal.classList.contains('hidden')
  overflowHidden, \* document.body.classList.contains('overflow-hidden')
  focus,          \* which element holds input focus
  msg,            \* formMsg.textContent and its colour
  fields,         \* current values of the form fields name, email, mobile
  submitDisabled, \* submitBtn.disabled
  handlers,       \* suspended invocations of the async submit handler
  timers,         \* pending setTimeout(closeModal, 800) callbacks
  uncaught,       \* an exception left the submit handler
  nSubmits,       \* submit events dispatched so far
  nValid,         \* submit events whose three fields were non-empty after trimming
  nRequests,      \* POST /download requests issued so far
  lastBody,       \* body of the most recent POST /download
  nDownloads,     \* downloads triggered so far (a.click())
  lastDownload,   \* a.download of the download the latest attempt triggered
  lastStep,       \* what the most recent step of a submit handler did
  lastKey,        \* pdfKey as the latest submit handler resolved it
  lastInput,      \* what the latest handler step read from the response
  vPresent,       \* ids of the video modal's elements the page contains
  vModalHidden,   \* the video modal's classList.contains('hidden')
  playlistIndex,  \* playlistSelect.selectedIndex
  populated,      \* playlist whose videos fill videoSelect and the list (-1: none)
  videoValue,     \* videoSelect.value
  iframeSrc,      \* iframe.src
  linkHref,       \* openInYouTube.href
  linkHidden      \* openInYouTube.classList.contains('hidden')

videoVars ==
  <<vPresent, vModalHidden, playlistIndex, populated, videoValue, iframeSrc,
    linkHref, linkHidden>>

vars == <<present, listeners, pathname, datasetPdf, fallbackName, modalHidden,
          overflowHidden, focus, msg, fields, submitDisabled, handlers, timers,
          uncaught, nSubmits, nValid, nRequests, lastBody, nDownloads,
          lastDownload, lastStep, lastKey, lastInput, vPresent, vModalHidden,
          playlistIndex, populated, videoValue, iframeSrc, linkHref,
          linkHidden>>

\* Submit events a behaviour may contain.
MaxSubmits == 2

---------------------------------------------------------------------------
(* Strings *)

Undefined == <<"<undefined>">>

\* JavaScript truthiness of a string-or-undefined value.
Truthy(v) == v # Undefined /\ v # <<>>

StartsWith(s, p) == Len(s) >= Len(p) /\ SubSeq(s, 1, Len(p)) = p

Drop(s, n) == SubSeq(s, n + 1, Len(s))

Quote == "\""

WhiteSpace == {" ", "\t"}

\* s holds nothing but white space.
IsBlank(s) == \A i \in 1..Len(s) : s[i] \in WhiteSpace

\* String.prototype.trim
RECURSIVE TrimLeft(_)
TrimLeft(s) ==
  IF s # <<>> /\ Head(s) \in WhiteSpace THEN TrimLeft(Tail(s)) ELSE s

RECURSIVE TrimRight(_)
TrimRight(s) ==
  IF s # <<>> /\ s[Len(s)] \in WhiteSpace
    THEN TrimRight(SubSeq(s, 1, Len(s) - 1))
    ELSE s

Trim(s) == TrimRight(TrimLeft(s))

---------------------------------------------------------------------------
(* inferKeyFromPath *)

S_html == <<".", "h", "t", "m", "l">>
S_series == <<"s", "e", "r", "i", "e", "s", "-">>
S_page == <<"p", "a", "g", "e", "-">>
S_pdf == <<".", "p", "d", "f">>
S_downloadPdf == <<"d", "o", "w", "n", "l", "o", "a", "d", ".", "p", "d", "f">>

\* location.pathname.split('/').pop(): what follows the last '/'.
LastSegment(p) ==
  LET slashes == {i \in 1..Len(p) : p[i] = "/"}
  IN  IF slashes = {} THEN p
      ELSE Drop(p, CHOOSE i \in slashes : \A j \in slashes : j <= i)

\* The upper-case form of the letters of /\.html$/i.
UpperOf(c) ==
  CASE c = "h" -> "H" [] c = "t" -> "T" [] c = "m" -> "M" [] c = "l" -> "L"
    [] OTHER -> c

\* p.replace(/\.html$/i, '')
StripHtml(p) ==
  LET n == Len(p) - Len(S_html)
  IN  IF n >= 0 /\ \A i \in 1..Len(S_html) :
                      p[n + i] \in {S_html[i], UpperOf(S_html[i])}
        THEN SubSeq(p, 1, n)
        ELSE p

\* s.replace(/^<prefix>/, '')
StripPrefix(s, prefix) == IF StartsWith(s, prefix) THEN Drop(s, Len(prefix)) ELSE s

inferKeyFromPath(p) ==
  StripPrefix(StripPrefix(StripHtml(LastSegment(p)), S_series), S_page)

---------------------------------------------------------------------------
(* Content-Disposition: cd.match(...) and decodeURIComponent *)

S_extPrefix ==
  <<"f", "i", "l", "e", "n", "a", "m", "e", "*", "=", "U", "T", "F", "-", "8", "'", "'">>
S_plainPrefix == <<"f", "i", "l", "e", "n", "a", "m", "e", "=">>

\* filename\*=UTF-8''(.+) matched at position i: the group is greedy and takes
\* the rest of the string.
ExtAt(cd, i) ==
  LET rest == Drop(cd, i - 1)
  IN  StartsWith(rest, S_extPrefix) /\ Len(rest) > Len(S_extPrefix)

\* filename="?(.+?)"?$ matched at position i.
PlainAt(cd, i) ==
  LET rest == Drop(cd, i - 1)
  IN  StartsWith(rest, S_plainPrefix) /\ Len(rest) > Len(S_plainPrefix)

\* (.+?)"?$ on r (non-empty): the lazy group grows until "?$ can match, that
\* is up to the end, or up to a closing quote that is the last character.
LazyToEnd(r) ==
  IF Len(r) >= 2 /\ r[Len(r)] = Quote THEN SubSeq(r, 1, Len(r) - 1) ELSE r

\* "?(.+?)"?$ on what follows filename= : the opening quote is taken when the
\* group can still match one character after it.
PlainGroup(rest) ==
  IF Head(rest) = Quote /\ Len(rest) >= 2 THEN LazyToEnd(Tail(rest))
  ELSE LazyToEnd(rest)

NoMatch == [matched |-> FALSE, group |-> <<>>]

\* cd.match(/filename\*=UTF-8''(.+)|filename="?(.+?)"?$/): the leftmost
\* position where an alternative matches; the result is m[1] || m[2].
CdMatch(cd) ==
  LET at == {i \in 1..Len(cd) : ExtAt(cd, i) \/ PlainAt(cd, i)}
  IN  IF at = {} THEN NoMatch
      ELSE LET i == CHOOSE k \in at : \A j \in at : k <= j
           IN  IF ExtAt(cd, i)
                 THEN [matched |-> TRUE, group |-> Drop(cd, i - 1 + Len(S_extPrefix))]
                 ELSE [matched |-> TRUE,
                       group |-> PlainGroup(Drop(cd, i - 1 + Len(S_plainPrefix)))]

\* Percent escapes decodeURIComponent resolves, as <<escape, character>>.  Any
\* other use of '%' in the modelled headers is malformed and throws URIError.
Escapes ==
  { << <<"%", "2", "0">>, " " >>,
    << <<"%", "2", "5">>, "%" >> }

Thrown == [ok |-> FALSE, val |-> <<>>]

RECURSIVE decodeURIComponent(_)
decodeURIComponent(s) ==
  IF s = <<>> THEN [ok |-> TRUE, val |-> <<>>]
  ELSE IF Head(s) # "%"
    THEN LET r == decodeURIComponent(Tail(s))
         IN  IF r.ok THEN [ok |-> TRUE, val |-> <<Head(s)>> \o r.val] ELSE Thrown
  ELSE LET es == {e \in Escapes : StartsWith(s, e[1])}
       IN  IF es = {} THEN Thrown
           ELSE LET e == CHOOSE x \in es : TRUE
                    r == decodeURIComponent(Drop(s, Len(e[1])))
                IN  IF r.ok THEN [ok |-> TRUE, val |-> <<e[2]>> \o r.val] ELSE Thrown

---------------------------------------------------------------------------
(* Inputs: pages, paths, form contents, responses *)

Elements ==
  {"download-btn", "download-modal", "modal-close", "cancel", "download-form",
   "form-msg"}

\* The elements init() returns early without.
Required == {"download-btn", "download-modal", "download-form"}

\* Pages the script is loaded on: the full markup, markup with the required
\* elements only (no close control, cancel control or status element), and
\* markup missing one of the required elements.
Pages == {Elements, Required} \cup {Elements \ {e} : e \in Required}

P_example ==
  <<"/", "p", "r", "o", "d", "u", "c", "t", "s", "/", "s", "e", "r", "i", "e", "s", "-", "c", "u", "t", "t", "e", "r", "-", "c", "o", "m", "p", "a", "c", "t", "o", "r", ".", "h", "t", "m", "l">>
P_both == <<"/", "s", "e", "r", "i", "e", "s", "-", "p", "a", "g", "e", "-", "a", "b", ".", "h", "t", "m", "l">>
P_upper == <<"/", "A", "B", ".", "H", "T", "M", "L">>
P_root == <<"/">>

Paths == {P_example, P_both, P_upper, P_root}

K_widgetA == <<"w", "i", "d", "g", "e", "t", "A">>
K_example == <<"c", "u", "t", "t", "e", "r", "-", "c", "o", "m", "p", "a", "c", "t", "o", "r">>

\* data-pdf of the download control: absent, empty, or an explicit key.
InitialKeys == {Undefined, <<>>, K_widgetA}

F_fallback == <<"f", ".", "p", "d", "f">>

\* data-fallback-name of the download control: absent or set.
InitialFallbacks == {Undefined, F_fallback}

EmptyForm == [name |-> <<>>, email |-> <<>>, mobile |-> <<>>]

V_name == <<" ", "A", " ">>
V_email == <<"a", "@", "b", ".", "c", "o", "m">>
V_mobile == <<"1", "2", "3">>

\* What the user may have typed when a step looks at the form.
FormInputs ==
  { [name |-> V_name, email |-> V_email, mobile |-> V_mobile],
    [name |-> <<" ">>, email |-> V_email, mobile |-> V_mobile],
    [name |-> V_name, email |-> <<"\t", " ">>, mobile |-> V_mobile],
    [name |-> V_name, email |-> V_email, mobile |-> <<>>] }

H_guide ==
  <<"a", "t", "t", "a", "c", "h", "m", "e", "n", "t", ";", " ", "f", "i", "l", "e", "n", "a", "m", "e", "=", "\"", "g", "u", "i", "d", "e", ".", "p", "d", "f", "\"">>
H_unquoted ==
  <<"a", "t", "t", "a", "c", "h", "m", "e", "n", "t", ";", " ", "f", "i", "l", "e", "n", "a", "m", "e", "=", "g", ".", "p", "d", "f">>
H_bare == <<"a", "t", "t", "a", "c", "h", "m", "e", "n", "t">>
H_size ==
  <<"a", "t", "t", "a", "c", "h", "m", "e", "n", "t", ";", " ", "f", "i", "l", "e", "n", "a", "m", "e", "=", "\"", "g", ".", "p", "d", "f", "\"", ";", " ", "s", "i", "z", "e", "=", "1">>
H_percent ==
  <<"a", "t", "t", "a", "c", "h", "m", "e", "n", "t", ";", " ", "f", "i", "l", "e", "n", "a", "m", "e", "=", "\"", "1", "0", "0", "%", ".", "p", "d", "f", "\"">>
H_ext ==
  <<"a", "t", "t", "a", "c", "h", "m", "e", "n", "t", ";", " ", "f", "i", "l", "e", "n", "a", "m", "e", "*", "=", "U", "T", "F", "-", "8", "'", "'", "a", "%", "2", "0", "b", ".", "p", "d", "f">>

\* Both parameters, the plain one first and the extended one first.
H_plainFirst ==
  <<"a", "t", "t", "a", "c", "h", "m", "e", "n", "t", ";", " ", "f", "i", "l", "e", "n", "a", "m", "e", "=", "\"", "a", ".", "p", "d", "f", "\"", ";", " ", "f", "i", "l", "e", "n", "a", "m", "e", "*", "=", "U", "T", "F", "-", "8", "'", "'", "b", "%", "2", "0", "c", ".", "p", "d", "f">>
H_extFirst ==
  <<"a", "t", "t", "a", "c", "h", "m", "e", "n", "t", ";", " ", "f", "i", "l", "e", "n", "a", "m", "e", "*", "=", "U", "T", "F", "-", "8", "'", "'", "b", "%", "2", "0", "c", ".", "p", "d", "f", ";", " ", "f", "i", "l", "e", "n", "a", "m", "e", "=", "\"", "a", ".", "p", "d", "f", "\"">>

N_guide == <<"g", "u", "i", "d", "e", ".", "p", "d", "f">>
N_g == <<"g", ".", "p", "d", "f">>
N_percent == <<"1", "0", "0", "%", ".", "p", "d", "f">>
N_ab == <<"a", " ", "b", ".", "p", "d", "f">>
N_bc == <<"b", " ", "c", ".", "p", "d", "f">>

\* Content-Disposition values a successful response may carry: `raw` is
\* res.headers.get('Content-Disposition') (Undefined: no such header) and
\* `filename` the filename that header value supplies to a client that reads
\* it by RFC 6266 (Undefined: none; the filename*= value when both
\* parameters are there).
HeaderInputs ==
  { [raw |-> Undefined, filename |-> Undefined],
    [raw |-> H_bare, filename |-> Undefined],
    [raw |-> H_guide, filename |-> N_guide],
    [raw |-> H_unquoted, filename |-> N_g],
    [raw |-> H_ext, filename |-> N_ab],
    [raw |-> H_size, filename |-> N_g],
    [raw |-> H_percent, filename |-> N_percent],
    [raw |-> H_plainFirst, filename |-> N_bc],
    [raw |-> H_extFirst, filename |-> N_bc] }

SuppliedName(raw) == (CHOOSE h \in HeaderInputs : h.raw = raw).filename

T_unprocessable == <<"Unprocessable Entity">>
T_invalidEmail == <<"Invalid email">>

\* res.statusText of a failure response (empty over HTTP/2).
StatusTexts == {<<>>, T_unprocessable}

\* How res.json() settles: it rejects (reading the body failed, or the body
\* is not JSON), or resolves with the parsed value: null, or a value whose
\* .message is `message` (Undefined when the value has no such property).
JsonOutcomes ==
  { [kind |-> "read-failed", message |-> Undefined],
    [kind |-> "not-json", message |-> Undefined],
    [kind |-> "null", message |-> Undefined],
    [kind |-> "value", message |-> Undefined],
    [kind |-> "value", message |-> <<>>],
    [kind |-> "value", message |-> T_invalidEmail] }

\* Nothing read from a response yet.
NoInput ==
  [json |-> [kind |-> "none", message |-> Undefined], statusText |-> <<>>,
   cd |-> Undefined]

\* No request issued yet.
NoBody ==
  [name |-> Undefined, email |-> Undefined, mobile |-> Undefined,
   pdf |-> Undefined]

---------------------------------------------------------------------------
(* Video modal: elements, catalog, URLs *)

VideoElements ==
  {"open-video-modal", "video-modal", "video-modal-backdrop",
   "video-modal-close", "video-iframe", "playlist-select", "video-select",
   "playlist-videos", "play-selected", "open-in-youtube"}

\* The elements the script returns early without.
VideoRequired ==
  {"video-modal", "video-iframe", "playlist-select", "video-select",
   "playlist-videos"}

\* Markup of the video modal: complete, and without the optional play
\* button and 'open in YouTube' link.
VideoPages ==
  {VideoElements, VideoElements \ {"play-selected", "open-in-youtube"}}

\* The script went past its early return.
VideoReady == VideoRequired \subseteq vPresent

\* VIDEO_CATALOG: the playlists and the ids of their videos, in order.
VIDEO_CATALOG ==
  << [id |-> "demos",
      videos |-> <<"mBNogPaOvg8", "nOhF8XUqZRs", "7gtKkNiBnmc", "jOR-KtfGXbc",
                   "vb1-RVSIWxM">>],
     [id |-> "howto",
      videos |-> <<"3fumBcKC6RE", "kXYiU_JCYtU", "e-ORhEE9VVg">>],
     [id |-> "testimonials",
      videos |-> <<"dQw4w9WgXcQ", "oHg5SJYRHA0">>] >>

\* Indices of the catalog as JavaScript counts them.
PlaylistIndices == 0..(Len(VIDEO_CATALOG) - 1)

\* The ids of the videos of playlist index (none for an index outside the
\* catalog).
VideosOf(index) ==
  IF index \in PlaylistIndices
    THEN {VIDEO_CATALOG[index + 1].videos[k] :
            k \in 1..Len(VIDEO_CATALOG[index + 1].videos)}
    ELSE {}

\* VIDEO_CATALOG[idx]?.videos?.[0]?.id
firstVid(index) ==
  IF VideosOf(index) = {} THEN "" ELSE VIDEO_CATALOG[index + 1].videos[1]

\* embedUrl(videoId, true): '' without an id.
embedUrl(videoId) ==
  IF videoId = "" THEN <<>>
  ELSE <<"https://www.youtube.com/embed/", videoId,
         "?rel=0&modestbranding=1&autoplay=1">>

\* `https://www.youtube.com/watch?v=${videoId}`
watchUrl(videoId) == <<"https://www.youtube.com/watch?v=", videoId>>

\* videoSelect.value after assigning id to it while it holds the options of
\* playlist index: an id that is no option selects nothing.
selectValue(index, id) == IF id \in VideosOf(index) THEN id ELSE ""

---------------------------------------------------------------------------
(* Status messages *)

M_processing == <<"Processing...">>
M_required == <<"Please fill all required fields.">>
M_errorPrefix == <<"Error: ">>
M_network == <<"Network or server error.">>
\* The source writes an em dash where this text has a hyphen.
M_started == <<"Download started - check your browser.">>

\* setMsg(text, isError): a no-op when the page has no #form-msg.
setMsg(text, isError) ==
  IF "form-msg" \in present THEN [text |-> text, error |-> isError] ELSE msg

---------------------------------------------------------------------------
(* init() *)

ListenersPartial(els) ==
  {"open", "backdrop", "keydown", "submit"}
    \cup (IF "modal-close" \in els THEN {"close"} ELSE {})
    \cup (IF "cancel" \in els THEN {"cancel"} ELSE {})

initListenersAnyway(els) == ListenersPartial(els)

\* The listeners init() registers on a page holding the elements els.
initListeners(els) ==
  IF Required \subseteq els THEN ListenersPartial(els) ELSE {}

\* The video modal as the markup and the script's load leave it: hidden, the
\* playlist select populated with its first option selected, no video
\* options yet, an empty player and a hidden link.
VideoInit ==
  /\ vModalHidden = TRUE
  /\ playlistIndex = 0
  /\ populated = -1
  /\ videoValue = ""
  /\ iframeSrc = <<>>
  /\ linkHref = <<>>
  /\ linkHidden = TRUE

\* The page once both scripts have run, its elements being els and vels.
PageInit(els, vels) ==
  /\ present = els
  /\ vPresent = vels
  /\ VideoInit
  /\ listeners = initListeners(present)
  /\ pathname = Undefined
  /\ datasetPdf \in InitialKeys
  /\ fallbackName \in InitialFallbacks
  /\ modalHidden = TRUE
  /\ overflowHidden = FALSE
  /\ focus = "none"
  /\ msg = [text |-> <<>>, error |-> FALSE]
  /\ fields = EmptyForm
  /\ submitDisabled = FALSE
  /\ handlers = <<>>
  /\ timers = 0
  /\ uncaught = FALSE
  /\ nSubmits = 0
  /\ nValid = 0
  /\ nRequests = 0
  /\ lastBody = NoBody
  /\ nDownloads = 0
  /\ lastDownload = Undefined
  /\ lastStep = "init"
  /\ lastKey = Undefined
  /\ lastInput = NoInput

\* A page with the download component and no video modal.
Init == \E els \in Pages : PageInit(els, {})

\* A page with both modals, the download component complete.
BothInit ==
  /\ \E vels \in VideoPages : PageInit(Elements, vels)
  /\ datasetPdf = K_widgetA
  /\ fallbackName = F_fallback

---------------------------------------------------------------------------
(* Modal *)

\* openModal(): the state of the modal, the body scroll lock, the focus and
\* the status message after it.
openModal ==
  [hidden |-> FALSE, overflow |-> TRUE, focus |-> "form-field",
   msg |-> setMsg(<<>>, FALSE)]

closeModalStaysVisible ==
  [hidden |-> FALSE, overflow |-> FALSE, focus |-> "download-btn"]

closeModalKeepsScroll ==
  [hidden |-> TRUE, overflow |-> overflowHidden, focus |-> "download-btn"]

\* closeModal(): the state of the modal, the body scroll lock and the focus
\* after it.
closeModal == [hidden |-> TRUE, overflow |-> FALSE, focus |-> "download-btn"]

DoOpen ==
  /\ modalHidden' = openModal.hidden
  /\ overflowHidden' = openModal.overflow
  /\ focus' = openModal.focus
  /\ msg' = openModal.msg

DoClose ==
  /\ modalHidden' = closeModal.hidden
  /\ overflowHidden' = closeModal.overflow
  /\ focus' = closeModal.focus

pageVars == <<present, listeners, datasetPdf, fallbackName>>
handlerVars == <<submitDisabled, handlers, timers, uncaught>>
logVars ==
  <<nSubmits, nValid, nRequests, lastBody, nDownloads, lastDownload, lastStep,
    lastKey, lastInput>>

\* click on #download-btn
OpenClick ==
  /\ "download-btn" \in present
  /\ IF "open" \in listeners
       THEN /\ DoOpen
            /\ UNCHANGED <<videoVars, pageVars, pathname, fields, handlerVars,
                           logVars>>
       ELSE UNCHANGED vars

\* click on #modal-close or #cancel, which are inside the modal
CloseClick(el) ==
  /\ el \in present
  /\ "download-modal" \in present => ~modalHidden
  /\ IF (IF el = "modal-close" THEN "close" ELSE "cancel") \in listeners
       THEN /\ DoClose
            /\ UNCHANGED <<videoVars, pageVars, pathname, msg, fields,
                           handlerVars, logVars>>
       ELSE UNCHANGED vars

\* click inside #download-modal: onBackdrop says whether ev.target is the
\* modal element itself.
ModalClick(onBackdrop) ==
  /\ "download-modal" \in present
  /\ ~modalHidden
  /\ IF "backdrop" \in listeners /\ onBackdrop
       THEN /\ DoClose
            /\ UNCHANGED <<videoVars, pageVars, pathname, msg, fields,
                           handlerVars, logVars>>
       ELSE UNCHANGED vars

\* The video modal's closeModal(): the modal, the player's source, the body
\* scroll lock and the focus after it.
videoCloseModal ==
  [hidden |-> TRUE, src |-> <<>>, overflow |-> FALSE,
   focus |-> IF "open-video-modal" \in vPresent THEN "open-video-modal"
             ELSE focus]

\* keydown on the document: the listener of videopop.js, which is included
\* first, and then the listener of pdf-submit.js.
KeyDown(key) ==
  LET video == VideoReady /\ key = "Escape" /\ ~vModalHidden
      download == "keydown" \in listeners /\ key = "Escape" /\ ~modalHidden
  IN  IF ~video /\ ~download THEN UNCHANGED vars
      ELSE /\ IF video
                THEN /\ vModalHidden' = videoCloseModal.hidden
                     /\ iframeSrc' = videoCloseModal.src
                ELSE UNCHANGED <<vModalHidden, iframeSrc>>
           /\ IF download THEN DoClose
              ELSE /\ overflowHidden' = videoCloseModal.overflow
                   /\ focus' = videoCloseModal.focus
                   /\ UNCHANGED modalHidden
           /\ UNCHANGED <<vPresent, playlistIndex, populated, videoValue,
                          linkHref, linkHidden, pageVars, pathname, msg,
                          fields, handlerVars, logVars>>

\* The setTimeout(closeModal, 800) callback runs.
TimerFire ==
  /\ timers > 0
  /\ timers' = timers - 1
  /\ DoClose
  /\ UNCHANGED <<videoVars, pageVars, pathname, msg, fields, submitDisabled,
                 handlers, uncaught, logVars>>

\* The form can be reached: it is on the page and the modal that holds it, if
\* the page has one, shows.
FormReachable ==
  /\ "download-form" \in present
  /\ "download-modal" \in present => ~modalHidden

\* The user edits the form.
FillForm(v) ==
  /\ FormReachable
  /\ fields # v
  /\ fields' = v
  /\ UNCHANGED <<videoVars, pageVars, pathname, modalHidden, overflowHidden,
                 focus, msg, handlerVars, logVars>>

---------------------------------------------------------------------------
(* Submit handler: the synchronous part, up to await fetch(...) *)

resolveKeyPrefersPath(explicit, p) ==
  IF Truthy(inferKeyFromPath(p)) THEN inferKeyFromPath(p) ELSE explicit

\* pdfKey: the explicit data-pdf when truthy, else the key inferred from the path.
resolveKey(explicit, p) ==
  IF Truthy(explicit) THEN explicit ELSE inferKeyFromPath(p)

cacheKeyNever(explicit, key) == explicit

\* downloadBtn.dataset.pdf after the handler cached the key on it.
cacheKey(explicit, key) ==
  IF Truthy(key) /\ ~Truthy(explicit) THEN key ELSE explicit

payloadUntrimmed(f, key) ==
  [name |-> f.name, email |-> f.email, mobile |-> f.mobile, pdf |-> key]

\* The payload object built from the FormData and the key (pdfKey || '').
payloadOf(f, key) ==
  [name |-> Trim(f.name), email |-> Trim(f.email), mobile |-> Trim(f.mobile),
   pdf |-> IF Truthy(key) THEN key ELSE <<>>]

missingFieldNameOnly(payload) == payload.name = <<>>

\* !payload.name || !payload.email || !payload.mobile
missingField(payload) ==
  payload.name = <<>> \/ payload.email = <<>> \/ payload.mobile = <<>>

\* The handler suspended at await fetch(...), holding its local pdfKey.
NewHandler(key) == [pc |-> "fetch", pdfKey |-> key]

\* submit on #download-form while location.pathname is p (the page may have
\* changed it with history.pushState since the last submit).  The event is
\* dispatched only while the submit control is enabled and the form can be
\* reached.
Submit(p) ==
  /\ FormReachable
  /\ ~submitDisabled
  /\ nSubmits < MaxSubmits
  /\ IF "submit" \notin listeners THEN UNCHANGED vars
     ELSE LET key == resolveKey(datasetPdf, p)
              payload == payloadOf(fields, key)
              passes == ~IsBlank(fields.name) /\ ~IsBlank(fields.email)
                          /\ ~IsBlank(fields.mobile)
          IN  /\ pathname' = p
              /\ lastKey' = key
              /\ lastInput' = NoInput
              /\ lastDownload' = Undefined
              /\ nSubmits' = nSubmits + 1
              /\ nValid' = IF passes THEN nValid + 1 ELSE nValid
              /\ datasetPdf' = cacheKey(datasetPdf, key)
              /\ IF missingField(payload)
                   THEN /\ msg' = setMsg(M_required, TRUE)
                        /\ submitDisabled' = FALSE
                        /\ lastStep' = "rejected"
                        /\ UNCHANGED <<handlers, nRequests, lastBody>>
                   ELSE /\ msg' = setMsg(M_processing, FALSE)
                        /\ submitDisabled' = TRUE
                        /\ handlers' = Append(handlers, NewHandler(key))
                        /\ nRequests' = nRequests + 1
                        /\ lastBody' = payload
                        /\ lastStep' = "sent"
              /\ UNCHANGED <<videoVars, present, listeners, fallbackName,
                             modalHidden, overflowHidden, focus, fields,
                             timers, uncaught, nDownloads>>

---------------------------------------------------------------------------
(* Submit handler: after await fetch(...) *)

Remove(seq, i) == SubSeq(seq, 1, i - 1) \o SubSeq(seq, i + 1, Len(seq))

catchRethrows == [text |-> msg.text, error |-> msg.error, propagates |-> TRUE]

\* catch (err) { console.error(...); setMsg('Network or server error.', true); }
catchBlock ==
  [text |-> setMsg(M_network, TRUE).text, error |-> setMsg(M_network, TRUE).error,
   propagates |-> FALSE]

afterFinallyKeeps(d) == d

\* finally { if (submitBtn) submitBtn.disabled = false; }
afterFinally(d) == FALSE

afterResponseEnables(d) == FALSE

\* submitBtn.disabled while the handler goes on to read the response: nothing
\* assigns it between the two awaits.
afterResponse(d) == d

\* The handler i throws (or its await rejects) inside the try block.
Throw(i, step, input) ==
  /\ msg' = [text |-> catchBlock.text, error |-> catchBlock.error]
  /\ uncaught' = (uncaught \/ catchBlock.propagates)
  /\ submitDisabled' = afterFinally(submitDisabled)
  /\ handlers' = Remove(handlers, i)
  /\ lastStep' = step
  /\ lastInput' = input
  /\ UNCHANGED <<videoVars, pageVars, pathname, modalHidden, overflowHidden,
                 focus, fields, timers, nSubmits, nValid, nRequests, lastBody,
                 nDownloads, lastDownload, lastKey>>

\* fetch() rejects: a transport failure.
FetchReject(i) ==
  /\ handlers[i].pc = "fetch"
  /\ Throw(i, "fetch-rejected", NoInput)

\* fetch() resolves with a response whose res.ok is ok; the handler goes on
\* to await res.json() or res.blob().  What else the response holds (status
\* text, body, headers) is drawn where the handler reads it.
FetchResolve(i, ok) ==
  /\ handlers[i].pc = "fetch"
  /\ handlers' = [handlers EXCEPT ![i].pc = IF ok THEN "blob" ELSE "json"]
  /\ submitDisabled' = afterResponse(submitDisabled)
  /\ lastStep' = "response"
  /\ lastInput' = NoInput
  /\ UNCHANGED <<videoVars, pageVars, pathname, modalHidden, overflowHidden,
                 focus, msg, fields, timers, uncaught, nSubmits, nValid,
                 nRequests, lastBody, nDownloads, lastDownload, lastKey>>

\* 'Error: ' + (errJson.message || res.statusText), errJson being the parsed
\* body or, when res.json() rejected, { message: res.statusText }.
errorText(o, statusText) ==
  LET message == IF o.kind \in {"read-failed", "not-json"} THEN statusText
                 ELSE o.message
  IN  M_errorPrefix \o (IF Truthy(message) THEN message ELSE statusText)

\* res.json() settles on a failure response whose status text is statusText.
\* A body of null makes errJson.message throw a TypeError, which the catch
\* block handles.
JsonSettle(i, o, statusText) ==
  /\ handlers[i].pc = "json"
  /\ LET input == [json |-> o, statusText |-> statusText, cd |-> Undefined]
     IN  IF o.kind = "null" THEN Throw(i, "error-threw", input)
         ELSE /\ msg' = setMsg(errorText(o, statusText), TRUE)
              /\ submitDisabled' = afterFinally(FALSE)
              /\ handlers' = Remove(handlers, i)
              /\ lastStep' = "error-shown"
              /\ lastInput' = input
              /\ UNCHANGED <<videoVars, pageVars, pathname, modalHidden,
                             overflowHidden, focus, fields, timers, uncaught,
                             nSubmits, nValid, nRequests, lastBody,
                             nDownloads, lastDownload, lastKey>>

\* res.blob() rejects: reading the body failed.
BlobReject(i) ==
  /\ handlers[i].pc = "blob"
  /\ Throw(i, "blob-rejected", NoInput)

\* dataset.fallbackName, else pdfKey + '.pdf', else 'download.pdf'.
fallbackFilename(fb, key) ==
  IF Truthy(fb) THEN fb ELSE IF Truthy(key) THEN key \o S_pdf ELSE S_downloadPdf

\* The download's filename: the Content-Disposition match, decoded, or the
\* fallback; ok is FALSE when decodeURIComponent throws.
resolveFilename(fb, key, raw) ==
  LET cd == IF raw = Undefined THEN <<>> ELSE raw
      m == CdMatch(cd)
  IN  IF m.matched THEN decodeURIComponent(m.group)
      ELSE [ok |-> TRUE, val |-> fallbackFilename(fb, key)]

formResetKeeps(f) == f

\* form.reset(): the fields return to their (empty) default values.
formReset(f) == EmptyForm

\* res.blob() resolves on a response whose Content-Disposition is raw: the
\* filename is resolved and the download triggered, unless decodeURIComponent
\* throws.
BlobResolve(i, raw) ==
  /\ handlers[i].pc = "blob"
  /\ LET fn == resolveFilename(fallbackName, handlers[i].pdfKey, raw)
         input == [json |-> NoInput.json, statusText |-> <<>>, cd |-> raw]
     IN  IF ~fn.ok THEN Throw(i, "filename-threw", input)
         ELSE /\ nDownloads' = nDownloads + 1
              /\ lastDownload' = fn.val
              /\ msg' = setMsg(M_started, FALSE)
              /\ fields' = formReset(fields)
              /\ timers' = timers + 1
              /\ submitDisabled' = afterFinally(submitDisabled)
              /\ handlers' = Remove(handlers, i)
              /\ lastStep' = "downloaded"
              /\ lastInput' = input
              /\ UNCHANGED <<videoVars, pageVars, pathname, modalHidden,
                             overflowHidden, focus, uncaught, nSubmits,
                             nValid, nRequests, lastBody, lastKey>>

---------------------------------------------------------------------------

Settle ==
  \E i \in 1..Len(handlers) :
    \/ FetchReject(i)
    \/ \E ok \in BOOLEAN : FetchResolve(i, ok)
    \/ \E o \in JsonOutcomes, t \in StatusTexts : JsonSettle(i, o, t)
    \/ BlobReject(i)
    \/ \E h \in HeaderInputs : BlobResolve(i, h.raw)

Next ==
  \/ OpenClick
  \/ \E el \in {"modal-close", "cancel"} : CloseClick(el)
  \/ \E b \in BOOLEAN : ModalClick(b)
  \/ \E key \in {"Escape", "Enter"} : KeyDown(key)
  \/ TimerFire
  \/ \E v \in FormInputs : FillForm(v)
  \/ \E p \in Paths : Submit(p)
  \/ Settle

Spec == Init /\ [][Next]_vars

\* Every awaited promise eventually settles and every due timer eventually
\* runs: the event loop starves no callback.
FairSpec == Spec /\ WF_vars(Settle) /\ WF_vars(TimerFire)

---------------------------------------------------------------------------
(* Video modal (js/videopop.js) *)

downloadVars ==
  <<pageVars, pathname, modalHidden, msg, fields, handlerVars, logVars>>

setVideoKeepsPlayer(videoId) ==
  [src |-> iframeSrc, href |-> watchUrl(videoId), linkHidden |-> FALSE]

\* setVideo(videoId): the player's source and, when the page has the link,
\* its target and visibility.
setVideo(videoId) ==
  IF "open-in-youtube" \in vPresent
    THEN [src |-> embedUrl(videoId), href |-> watchUrl(videoId),
          linkHidden |-> FALSE]
    ELSE [src |-> embedUrl(videoId), href |-> linkHref,
          linkHidden |-> linkHidden]

DoSetVideo(videoId) ==
  /\ iframeSrc' = setVideo(videoId).src
  /\ linkHref' = setVideo(videoId).href
  /\ linkHidden' = setVideo(videoId).linkHidden

\* populateVideosForPlaylist(index), then the first video of that playlist
\* is selected and set, or with no first video the player emptied and the
\* link hidden.
DoShowPlaylist(index) ==
  /\ populated' = index
  /\ IF firstVid(index) # ""
       THEN /\ videoValue' = selectValue(index, firstVid(index))
            /\ DoSetVideo(firstVid(index))
       ELSE /\ videoValue' = ""
            /\ iframeSrc' = <<>>
            /\ linkHidden' = ("open-in-youtube" \in vPresent \/ linkHidden)
            /\ UNCHANGED linkHref

\* click on #open-video-modal, which the keyboard reaches at any time:
\* neither modal traps the focus.
VideoOpenClick ==
  /\ VideoReady
  /\ "open-video-modal" \in vPresent
  /\ playlistIndex' = 0
  /\ DoShowPlaylist(0)
  /\ vModalHidden' = FALSE
  /\ overflowHidden' = TRUE
  /\ focus' = "playlist-select"
  /\ UNCHANGED <<vPresent, downloadVars>>

\* click on #video-modal-close or #video-modal-backdrop, both inside the
\* modal
VideoCloseClick(el) ==
  /\ VideoReady
  /\ el \in vPresent
  /\ ~vModalHidden
  /\ vModalHidden' = videoCloseModal.hidden
  /\ iframeSrc' = videoCloseModal.src
  /\ overflowHidden' = videoCloseModal.overflow
  /\ focus' = videoCloseModal.focus
  /\ UNCHANGED <<vPresent, playlistIndex, populated, videoValue, linkHref,
                 linkHidden, downloadVars>>

\* change on #playlist-select: the user picks the option of playlist index.
PlaylistChange(index) ==
  /\ VideoReady
  /\ ~vModalHidden
  /\ index # playlistIndex
  /\ playlistIndex' = index
  /\ DoShowPlaylist(index)
  /\ UNCHANGED <<vPresent, vModalHidden, overflowHidden, focus, downloadVars>>

\* change on #video-select: the user picks another of its options.
VideoSelectChange(videoId) ==
  /\ VideoReady
  /\ ~vModalHidden
  /\ videoId \in VideosOf(populated)
  /\ videoId # videoValue
  /\ videoValue' = videoId
  /\ DoSetVideo(videoId)
  /\ UNCHANGED <<vPresent, vModalHidden, playlistIndex, populated,
                 overflowHidden, focus, downloadVars>>

\* click on an item of #playlist-videos
ListItemClick(videoId) ==
  /\ VideoReady
  /\ ~vModalHidden
  /\ videoId \in VideosOf(populated)
  /\ videoValue' = selectValue(populated, videoId)
  /\ DoSetVideo(videoId)
  /\ UNCHANGED <<vPresent, vModalHidden, playlistIndex, populated,
                 overflowHidden, focus, downloadVars>>

\* click on #play-selected
PlayClick ==
  /\ VideoReady
  /\ "play-selected" \in vPresent
  /\ ~vModalHidden
  /\ IF videoValue # "" THEN DoSetVideo(videoValue)
     ELSE UNCHANGED <<iframeSrc, linkHref, linkHidden>>
  /\ UNCHANGED <<vPresent, vModalHidden, playlistIndex, populated, videoValue,
                 overflowHidden, focus, downloadVars>>

AllVideos == UNION {VideosOf(i) : i \in PlaylistIndices}

\* The open and close events of the two modals and the events of the video
\* modal's controls, on a page that has both modals.
BothNext ==
  \/ OpenClick
  \/ \E el \in {"modal-close", "cancel"} : CloseClick(el)
  \/ \E b \in BOOLEAN : ModalClick(b)
  \/ \E key \in {"Escape", "Enter"} : KeyDown(key)
  \/ VideoOpenClick
  \/ \E el \in {"video-modal-close", "video-modal-backdrop"} :
       VideoCloseClick(el)
  \/ \E index \in PlaylistIndices : PlaylistChange(index)
  \/ \E videoId \in AllVideos : VideoSelectChange(videoId)
  \/ \E videoId \in AllVideos : ListItemClick(videoId)
  \/ PlayClick

BothSpec == BothInit /\ [][BothNext]_vars

---------------------------------------------------------------------------
(* Properties *)

\* A step that dispatches a submit event to the handler.
SubmitStep == nSubmits' = nSubmits + 1

\* A step in which an invocation of the handler returns after an await.
HandlerEnds == Len(handlers') < Len(handlers)

\* Some required field of the form is empty once surrounding white space is
\* taken away.
FieldsIncomplete ==
  IsBlank(fields.name) \/ IsBlank(fields.email) \/ IsBlank(fields.mobile)

Shown(text, isError) ==
  "form-msg" \in present => msg' = [text |-> text, error |-> isError]

\* t is s without its leading and trailing white space.
IsTrimOf(t, s) ==
  /\ t # <<>> => (t[1] \notin WhiteSpace /\ t[Len(t)] \notin WhiteSpace)
  /\ \E a \in 0..Len(s) :
       /\ a + Len(t) <= Len(s)
       /\ SubSeq(s, a + 1, a + Len(t)) = t
       /\ IsBlank(SubSeq(s, 1, a))
       /\ IsBlank(SubSeq(s, a + Len(t) + 1, Len(s)))

\* C1: a submit event with name, email or mobile empty after trimming issues
\* no POST /download, starts no handler, shows the error-styled message
\* 'Please fill all required fields.' (on a page that has the status element)
\* and leaves the submit control enabled.
C1_ValidationAborts ==
  [][(SubmitStep /\ FieldsIncomplete) =>
       /\ nRequests' = nRequests
       /\ handlers' = handlers
       /\ Shown(M_required, TRUE)
       /\ ~submitDisabled']_vars

\* C1 witness: a submit event was aborted by the validation.
C1_Witness ==
  /\ lastStep = "rejected"
  /\ nSubmits = 1
  /\ nRequests = 0
  /\ msg = [text |-> M_required, error |-> TRUE]
  /\ ~submitDisabled

\* C2: at most one request is outstanding at any time; the submit control is
\* disabled as long as a handler is suspended, and it goes from disabled to
\* enabled only in a step in which a handler finishes.
C2_SingleRequest ==
  /\ [](Len(handlers) <= 1 /\ (handlers # <<>> => submitDisabled))
  /\ [][(submitDisabled /\ ~submitDisabled') => HandlerEnds]_vars

\* C2 witness: a second attempt is in flight, after the first one finished
\* and the modal was closed during the second.
C2_Witness ==
  /\ nRequests = 2
  /\ Len(handlers) = 1
  /\ submitDisabled
  /\ modalHidden

\* C3: every attempt ends with the submit control enabled, whether it is
\* aborted by the validation or its handler returns after an await; and, as
\* awaited promises settle, a disabled submit control becomes enabled again.
C3_ControlReenabled ==
  /\ [][(SubmitStep /\ FieldsIncomplete) => ~submitDisabled']_vars
  /\ [][HandlerEnds => ~submitDisabled']_vars
  /\ (submitDisabled ~> ~submitDisabled)

\* C3 witness: a handler whose request failed returned while the modal was
\* closed by the user, and the submit control is enabled.
C3_Witness ==
  /\ lastStep = "fetch-rejected"
  /\ handlers = <<>>
  /\ modalHidden
  /\ timers = 0
  /\ nDownloads = 0
  /\ ~submitDisabled

\* C4: a submit event with three non-empty fields issues exactly one request
\* whose body holds the trimmed fields and the key the handler resolved;
\* requests are issued by such submit events only (no retry), so the number
\* of requests equals the number of submit events that passed validation.
C4_OneRequestPerValidSubmit ==
  /\ [][(SubmitStep /\ ~FieldsIncomplete) =>
          /\ nRequests' = nRequests + 1
          /\ Len(handlers') = Len(handlers) + 1
          /\ IsTrimOf(lastBody'.name, fields.name)
          /\ IsTrimOf(lastBody'.email, fields.email)
          /\ IsTrimOf(lastBody'.mobile, fields.mobile)
          /\ lastBody'.pdf = lastKey'
          /\ lastBody'.pdf = handlers'[Len(handlers')].pdfKey]_vars
  /\ [][nRequests' # nRequests =>
          (SubmitStep /\ ~FieldsIncomplete /\ nRequests' = nRequests + 1)]_vars
  /\ [](nRequests = nValid)

\* C4 witness: the only request carried the trimmed name, failed, and was
\* not issued again.
C4_Witness ==
  /\ nRequests = 1
  /\ lastBody.name = <<"A">>
  /\ lastStep = "fetch-rejected"
  /\ handlers = <<>>

\* The detail C5 puts after 'Error: ': the body's message, or the status text
\* when the body is not JSON or has no message.
C5_Detail(input) ==
  IF input.json.kind = "value" /\ Truthy(input.json.message)
    THEN input.json.message
    ELSE input.statusText

\* C5: when the response has a failure status, the message becomes the
\* error-styled 'Error: ' + (the body's message, or the status text when the
\* body is not JSON or has no message); nothing is downloaded, the form is
\* not reset, no delayed close is scheduled and the modal is not hidden.
C5_FailureStatusShown ==
  [][(HandlerEnds /\ lastStep' \in {"error-shown", "error-threw"}) =>
       /\ Shown(M_errorPrefix \o C5_Detail(lastInput'), TRUE)
       /\ nDownloads' = nDownloads
       /\ fields' = fields
       /\ timers' = timers
       /\ modalHidden' = modalHidden]_vars

\* What C6 says of a failure: caught, reported as 'Network or server error.',
\* no download, the modal left as it is.
C6_Effects ==
  /\ ~uncaught'
  /\ Shown(M_network, TRUE)
  /\ nDownloads' = nDownloads
  /\ modalHidden' = modalHidden

\* The handler returns because reading the body of a failure response failed.
C6_ErrorBodyUnreadable ==
  HandlerEnds /\ lastStep' = "error-shown" /\ lastInput'.json.kind = "read-failed"

\* C6 as stated: when the request is rejected or reading the response body
\* fails (of a successful or of a failure response), the failure is caught and
\* the error-styled message 'Network or server error.' is shown, with no
\* download and the modal left open.
C6_Original ==
  [][((HandlerEnds /\ lastStep' \in {"fetch-rejected", "blob-rejected"})
        \/ C6_ErrorBodyUnreadable) => C6_Effects]_vars

\* C6 amended: when the request is rejected or reading the body of a
\* successful response fails, the failure is caught and 'Network or server
\* error.' is shown, with no download and the modal left open; when reading
\* the body of a failure response fails, the failure is caught as well but the
\* message is 'Error: ' + the status text.
C6_TransportFailureCaught ==
  /\ [][(HandlerEnds /\ lastStep' \in {"fetch-rejected", "blob-rejected"}) =>
          C6_Effects]_vars
  /\ [][C6_ErrorBodyUnreadable =>
          /\ ~uncaught'
          /\ Shown(M_errorPrefix \o lastInput'.statusText, TRUE)
          /\ nDownloads' = nDownloads
          /\ modalHidden' = modalHidden]_vars

\* C6 witness: reading the body of a successful response failed; the message
\* is shown in the modal, which is still open.
C6_Witness ==
  /\ lastStep = "blob-rejected"
  /\ msg = [text |-> M_network, error |-> TRUE]
  /\ ~modalHidden
  /\ ~uncaught
  /\ nDownloads = 0

\* C7: when the response succeeds and its body is read, exactly one download
\* is triggered, the success message is shown, the form is reset, the modal
\* is not hidden in that step and one delayed close is scheduled.
C7_SuccessDownloads ==
  [][(HandlerEnds /\ lastStep' \in {"downloaded", "filename-threw"}) =>
       /\ nDownloads' = nDownloads + 1
       /\ Shown(M_started, FALSE)
       /\ fields' = EmptyForm
       /\ modalHidden' = modalHidden
       /\ timers' = timers + 1]_vars

\* The last path segment with its '.html' suffix removed and then one leading
\* prefix removed: 'series-' if it starts with it, else 'page-' if it starts
\* with that.
C8_OnePrefix(p) ==
  LET b == StripHtml(LastSegment(p))
  IN  CASE StartsWith(b, S_series) -> Drop(b, Len(S_series))
        [] StartsWith(b, S_page) -> Drop(b, Len(S_page))
        [] OTHER -> b

\* The same with a leading 'series-' removed and then a leading 'page-'.
C8_BothPrefixes(p) ==
  LET b == StripHtml(LastSegment(p))
  IN  CASE StartsWith(b, S_series \o S_page) -> Drop(b, Len(S_series \o S_page))
        [] StartsWith(b, S_series) -> Drop(b, Len(S_series))
        [] StartsWith(b, S_page) -> Drop(b, Len(S_page))
        [] OTHER -> b

\* C8 as stated: the key posted is the control's explicit key when one is
\* set, whatever the path; otherwise the last path segment with '.html' and
\* one leading 'series-' or 'page-' prefix removed.
C8_Original ==
  [][nRequests' = nRequests + 1 =>
       lastBody'.pdf = IF Truthy(datasetPdf) THEN datasetPdf
                       ELSE C8_OnePrefix(pathname')]_vars

\* C8 amended: the key posted is the control's explicit key when one is set
\* (and not empty), whatever the path; otherwise the last path segment with a
\* '.html' suffix (in any letter case) removed, then a leading 'series-'
\* removed, then a leading 'page-' removed; 'series-cutter-compactor.html'
\* gives 'cutter-compactor'.
C8_KeyResolution ==
  [][nRequests' = nRequests + 1 =>
       /\ lastBody'.pdf = IF Truthy(datasetPdf) THEN datasetPdf
                          ELSE C8_BothPrefixes(pathname')
       /\ (~Truthy(datasetPdf) /\ pathname' = P_example) =>
            lastBody'.pdf = K_example]_vars

\* C8 witness: a request posted from 'series-page-ab.html' with no explicit
\* key carries 'ab'.
C8_Witness ==
  /\ nRequests = 1
  /\ nSubmits = 1
  /\ pathname = P_both
  /\ lastBody.pdf = <<"a", "b">>

\* C9 as stated: the key an attempt resolves is stored on the control, and
\* every later attempt resolves and posts that same key.
C9_Original ==
  /\ [][SubmitStep => datasetPdf' = lastKey']_vars
  /\ [][(SubmitStep /\ nSubmits >= 1) =>
          /\ lastKey' = lastKey
          /\ nRequests' # nRequests => lastBody'.pdf = lastKey]_vars

\* C9 amended: a non-empty key an attempt resolves is stored on the control,
\* and every later attempt resolves and posts that same key, also when the
\* resolving attempt was aborted by the validation or failed; an empty key is
\* not stored.
C9_KeyCached ==
  /\ [][(SubmitStep /\ Truthy(lastKey')) => datasetPdf' = lastKey']_vars
  /\ [][(SubmitStep /\ Truthy(lastKey)) =>
          /\ lastKey' = lastKey
          /\ nRequests' # nRequests => lastBody'.pdf = lastKey]_vars
  /\ [][(SubmitStep /\ ~Truthy(lastKey')) => datasetPdf' = datasetPdf]_vars

\* C9 witness: the first attempt, aborted by the validation, resolved
\* 'cutter-compactor'; the second, submitted after the path changed, posted it.
C9_Witness ==
  /\ nSubmits = 2
  /\ nRequests = 1
  /\ lastStep = "sent"
  /\ pathname = P_both
  /\ datasetPdf = K_example
  /\ lastBody.pdf = K_example

\* C10: the filename of a download is the one the Content-Disposition header
\* supplies when it supplies one; with no such header it is the control's
\* fallback-filename attribute if set, else '<pdf-key>.pdf' if the key is not
\* empty, else 'download.pdf'.
C10_Filename ==
  [][(HandlerEnds /\ lastStep' = "downloaded") =>
       LET raw == lastInput'.cd
       IN  /\ SuppliedName(raw) # Undefined => lastDownload' = SuppliedName(raw)
           /\ raw = Undefined =>
                lastDownload' =
                  IF fallbackName # Undefined THEN fallbackName
                  ELSE IF lastBody.pdf # <<>> THEN lastBody.pdf \o S_pdf
                  ELSE S_downloadPdf]_vars

\* The Content-Disposition values that carry both a plain filename="..." and
\* an extended filename*=UTF-8''... parameter, whose decoded value is N_bc.
BothParameters == {H_plainFirst, H_extFirst}

\* C11: when the Content-Disposition header of a successful response carries
\* both a plain filename="..." parameter and a filename*=UTF-8''... parameter,
\* in either order, the download is named by the decoded value of the
\* filename*= parameter.
C11_ExtendedParameterWins ==
  [][(HandlerEnds /\ lastStep' = "downloaded"
        /\ lastInput'.cd \in BothParameters) => lastDownload' = N_bc]_vars

\* init() went past its early return and registered its listeners.
Initialised == listeners # {}

\* What opening and closing the modal leave alone: the form, the submit
\* control, the handlers and timers, and everything a submission records.
ModalFrame == UNCHANGED <<pageVars, pathname, fields, handlerVars, logVars>>

\* C12: a click on the download control shows the modal, locks the background
\* scroll and clears the status message; a click on the close control, on
\* the cancel control or on the backdrop itself, and Escape while the modal
\* shows, hide the modal, unlock the scroll and focus the download control;
\* Escape while the modal is hidden and a click inside the modal's content
\* change nothing.  None of them touches the form or a submission.
C12_ModalControls ==
  /\ [][(OpenClick /\ Initialised) =>
          /\ ~modalHidden'
          /\ overflowHidden'
          /\ Shown(<<>>, FALSE)
          /\ ModalFrame]_vars
  /\ [][(Initialised /\ \/ \E el \in {"modal-close", "cancel"} : CloseClick(el)
                        \/ ModalClick(TRUE)
                        \/ (KeyDown("Escape") /\ ~modalHidden)) =>
          /\ modalHidden'
          /\ ~overflowHidden'
          /\ focus' = "download-btn"
          /\ msg' = msg
          /\ ModalFrame]_vars
  /\ [][((KeyDown("Escape") /\ modalHidden) \/ ModalClick(FALSE)) =>
          UNCHANGED vars]_vars

\* C12 witness: the modal was opened, which cleared the message of an
\* aborted attempt, and then closed again.
C12_Witness ==
  /\ lastStep = "rejected"
  /\ msg = [text |-> <<>>, error |-> FALSE]
  /\ modalHidden
  /\ ~overflowHidden
  /\ focus = "download-btn"

\* A step in which one of the close listeners runs closeModal().
CloseStep ==
  /\ Initialised
  /\ \/ \E el \in {"modal-close", "cancel"} : CloseClick(el)
     \/ ModalClick(TRUE)
     \/ (KeyDown("Escape") /\ ~modalHidden)

\* C13: with no handler suspended, opening the modal and closing it issues no
\* request and leaves the submit control enabled, the modal hidden and the
\* scroll unlocked; the state it leaves is one that a further open-then-close
\* reproduces.  The first conjunct takes the open step and computes, in the
\* state it reaches, what closeModal() then gives and what a further
\* openModal() would write; the second takes the close step.
C13_OpenCloseRoundTrip ==
  /\ [][(OpenClick /\ Initialised /\ handlers = <<>>) =>
          /\ nRequests' = nRequests
          /\ handlers' = <<>>
          /\ ~submitDisabled'
          /\ closeModal'.hidden
          /\ ~closeModal'.overflow
          /\ openModal'.msg = msg'
          /\ openModal'.hidden = modalHidden'
          /\ openModal'.overflow = overflowHidden'
          /\ openModal'.focus = focus']_vars
  /\ [][(CloseStep /\ handlers = <<>>) =>
          /\ nRequests' = nRequests
          /\ handlers' = <<>>
          /\ ~submitDisabled'
          /\ modalHidden'
          /\ ~overflowHidden'
          /\ closeModal'.hidden = modalHidden'
          /\ closeModal'.overflow = overflowHidden'
          /\ closeModal'.focus = focus'
          /\ UNCHANGED <<msg, pageVars, pathname, fields, handlerVars,
                         logVars>>]_vars

\* C13 witness: after a download the modal was opened, which cleared the
\* success message, and closed, with no further submit event.
C13_Witness ==
  /\ lastStep = "downloaded"
  /\ nSubmits = 1
  /\ handlers = <<>>
  /\ timers = 0
  /\ msg = [text |-> <<>>, error |-> FALSE]
  /\ modalHidden
  /\ ~overflowHidden
  /\ ~submitDisabled

\* Nothing the script owns changes and no request is issued (what the user
\* has typed into a form is not the script's).
ScriptIdle ==
  /\ nRequests' = nRequests
  /\ UNCHANGED <<pageVars, pathname, modalHidden, overflowHidden, focus, msg,
                 handlerVars, logVars>>

\* The five handlers C14 lists; "close" is the click listener of the close
\* and cancel controls.
C14_Handlers == {"open", "close", "backdrop", "keydown", "submit"}

\* The handlers registered, by C14's names.
C14_Registered ==
  {IF l = "cancel" THEN "close" ELSE l : l \in listeners}

\* C14 as stated: with the download control, the modal or the form missing,
\* no handler is registered and no event changes any state or issues a
\* request; otherwise all of open, close, backdrop, Escape and submit are
\* registered.
C14_Original ==
  /\ [](IF Required \subseteq present THEN C14_Registered = C14_Handlers
        ELSE listeners = {})
  /\ [][~(Required \subseteq present) => ScriptIdle]_vars

\* C14 amended: with the download control, the modal or the form missing, no
\* handler is registered and no event changes any state or issues a request;
\* otherwise the open, backdrop, Escape and submit handlers are registered,
\* and a close handler on each of the close and cancel controls the page has
\* (none when it has neither).
C14_AllOrNothing ==
  /\ [](IF Required \subseteq present
          THEN /\ {"open", "backdrop", "keydown", "submit"} \subseteq listeners
               /\ "close" \in listeners <=> "modal-close" \in present
               /\ "cancel" \in listeners <=> "cancel" \in present
          ELSE listeners = {})
  /\ [][~(Required \subseteq present) => ScriptIdle]_vars

\* C14 witness: on a page without the modal element the user has typed into
\* the form; the script registered nothing and did nothing.
C14_Witness ==
  /\ "download-modal" \notin present
  /\ listeners = {}
  /\ fields # EmptyForm
  /\ nRequests = 0
  /\ modalHidden
  /\ msg = [text |-> <<>>, error |-> FALSE]

\* C15: a step that hides or shows the modal leaves a suspended handler and
\* the disabled submit control as they are; whenever a handler returns, with the
\* modal hidden or showing, it re-enables the submit control, leaves the
\* modal as it is and applies the effects of its outcome: on success the
\* download, the success message, the form reset and one delayed close; on a
\* failure an error-styled message and nothing else; and a suspended
\* handler does return, also while the modal is hidden.
C15_CloseDoesNotCancel ==
  /\ [][modalHidden' # modalHidden =>
          (handlers' = handlers /\ submitDisabled' = submitDisabled)]_vars
  /\ [][HandlerEnds =>
          /\ ~submitDisabled'
          /\ modalHidden' = modalHidden
          /\ IF lastStep' = "downloaded"
               THEN /\ nDownloads' = nDownloads + 1
                    /\ Shown(M_started, FALSE)
                    /\ fields' = EmptyForm
                    /\ timers' = timers + 1
               ELSE /\ "form-msg" \in present => (msg'.error /\ msg'.text # <<>>)
                    /\ UNCHANGED <<nDownloads, fields, timers>>]_vars
  /\ ((handlers # <<>> /\ modalHidden) ~> handlers = <<>>)

\* C15 witness: a download completed, its success message is set and its
\* delayed close is pending, while the modal is already hidden: the user
\* closed it.
C15_Witness ==
  /\ lastStep = "downloaded"
  /\ nDownloads = 1
  /\ msg = [text |-> M_started, error |-> FALSE]
  /\ fields = EmptyForm
  /\ timers = 1
  /\ modalHidden
  /\ ~submitDisabled

\* C16: while a handler is suspended the modal goes from showing to hidden
\* only in a step of a close listener (close control, cancel control,
\* backdrop, Escape), never by the delayed close of an earlier download.
C16_OnlyUserCloses ==
  [][(handlers # <<>> /\ ~modalHidden /\ modalHidden') => CloseStep]_vars

\* C17: on a page with both modals the background scroll is locked whenever
\* at least one of the two modals shows, and unlocked when both are hidden.
C17_ScrollLockedWhileVisible ==
  overflowHidden <=> (~modalHidden \/ ~vModalHidden)

\* The video modal shows the video id: the player embeds it, the video
\* select holds it and, on a page with the link, the link points to it.
Playing(videoId) ==
  /\ videoValue = videoId
  /\ iframeSrc = embedUrl(videoId)
  /\ "open-in-youtube" \in vPresent =>
       (linkHref = watchUrl(videoId) /\ ~linkHidden)

\* C18: while the video modal shows, the player embeds the video selected in
\* the video select, which is a video of the playlist selected in the
\* playlist select, and the link points to that video; a close empties the
\* player's source, and it stays empty while the modal is hidden.
C18_PlayerFollowsSelection ==
  /\ [](~vModalHidden =>
          /\ videoValue \in VideosOf(playlistIndex)
          /\ Playing(videoValue))
  /\ [][vModalHidden' => iframeSrc' = <<>>]_vars

\* C18 witness: the second video of the third playlist was picked and
\* plays, the download modal having been opened and closed meanwhile.
C18_Witness ==
  /\ ~vModalHidden
  /\ playlistIndex = 2
  /\ Playing("oHg5SJYRHA0")
  /\ modalHidden
  /\ focus = "download-btn"

=============================================================================
